---- MODULE Spec2Model ----
(***************************************************************************)
(* Model of scripts/build_site.py: the static-site build for IFC models.   *)
(*                                                                         *)
(*   - slugify, to_jsonable, get_storey_name : pure functions, operators;  *)
(*       one call of each on a bounded argument (specifications            *)
(*       SpecSlugify, SpecJsonable, SpecStorey)                            *)
(*   - extract_metadata : the per-element loop, one action per iteration   *)
(*       (specification SpecExtract)                                       *)
(*   - main : the build run over the files of ifc/, one action per step    *)
(*       of the run and per loop iteration (specification Spec)            *)
(*   - two builds one after the other (specification SpecTwoRuns)          *)
(*                                                                         *)
(* Strings are sequences of one-character strings.  Paths are ordered as   *)
(* pathlib orders PurePosixPath objects: by code point, case-sensitive.    *)
(***************************************************************************)
EXTENDS Integers, Sequences, FiniteSets, TLC

\* ------------------------------------------------------------------ bounds
\* longest element sequence a model's by_type("IfcProduct") returns
MaxElems == 3
\* most input files in ifc/
MaxFiles == 3

\* longest string given to slugify on its own
MaxLen == 4

\* most members of a container given to to_jsonable on its own
MaxWidth == 2

\* most containment relationships of an element given to get_storey_name
MaxRels == 3

\* ------------------------------------------------------------- characters
\* "U017F" is LATIN SMALL LETTER LONG S, "U00E9" is e-acute, "U00A0" is
\* NO-BREAK SPACE: one character each.
AsciiLower == {"a", "b", "c", "d", "e", "f", "i", "l", "m", "o", "t", "w"}

AsciiUpper == {"A", "B", "T"}

Digits == {"0"}

\* characters str.strip() removes
Whitespace == {" ", "U00A0"}

\* code point of a character
ord(c) ==
  CASE c = " " -> 32    [] c = "!" -> 33    [] c = "-" -> 45
    [] c = "." -> 46    [] c = "0" -> 48    [] c = "A" -> 65
    [] c = "B" -> 66    [] c = "T" -> 84    [] c = "_" -> 95
    [] c = "a" -> 97    [] c = "b" -> 98    [] c = "c" -> 99
    [] c = "d" -> 100   [] c = "e" -> 101   [] c = "f" -> 102
    [] c = "i" -> 105   [] c = "l" -> 108   [] c = "m" -> 109
    [] c = "o" -> 111   [] c = "t" -> 116   [] c = "w" -> 119
    [] c = "U00A0" -> 160 [] c = "U00E9" -> 233 [] c = "U017F" -> 383

\* str.lower() of one character
lower(c) ==
  CASE c = "A" -> "a" [] c = "B" -> "b" [] c = "T" -> "t" [] OTHER -> c

\* a character the class [a-z0-9\-_] matches under re.IGNORECASE: the ASCII
\* letters and digits, hyphen, underscore, and the non-ASCII letters whose
\* case folding is an ASCII letter (long s folds to s)
MatchesSlugClass(c) ==
  c \in AsciiLower \cup AsciiUpper \cup Digits \cup {"-", "_", "U017F"}

\* ---------------------------------------------------------------- slugify
\* str.strip(chars): drop the leading and trailing characters in chars
RECURSIVE lstrip(_, _)
lstrip(s, chars) ==
  IF s # <<>> /\ Head(s) \in chars THEN lstrip(Tail(s), chars) ELSE s

RECURSIVE rstrip(_, _)
rstrip(s, chars) ==
  IF s # <<>> /\ s[Len(s)] \in chars
  THEN rstrip(SubSeq(s, 1, Len(s) - 1), chars) ELSE s

strip(s, chars) == rstrip(lstrip(s, chars), chars)

\* a lower() that leaves the letters as they are
lowerStrIdentity(s) == s

\* str.lower()
lowerStr(s) == [i \in 1..Len(s) |-> lower(s[i])]

\* re.sub(r"[^a-z0-9\-_]+", "-", s, flags=re.IGNORECASE): every maximal run
\* of characters outside the class becomes one hyphen
SubInvalidRuns(s) ==
  LET F[i \in 0..Len(s)] ==
        IF i = 0 THEN <<>>
        ELSE IF MatchesSlugClass(s[i]) THEN Append(F[i-1], s[i])
        ELSE IF i > 1 /\ ~MatchesSlugClass(s[i-1]) THEN F[i-1]
        ELSE Append(F[i-1], "-")
  IN F[Len(s)]

\* re.sub(r"-+", "-", s): every run of hyphens becomes one hyphen
CollapseHyphens(s) ==
  LET F[i \in 0..Len(s)] ==
        IF i = 0 THEN <<>>
        ELSE IF s[i] = "-" /\ i > 1 /\ s[i-1] = "-" THEN F[i-1]
        ELSE Append(F[i-1], s[i])
  IN F[Len(s)]

Modelo == <<"m", "o", "d", "e", "l", "o">>

slugify(name) ==
  LET n1 == lowerStr(strip(name, Whitespace))
      n2 == SubInvalidRuns(n1)
      n3 == strip(CollapseHyphens(n2), {"-"})
  IN IF n3 = <<>> THEN Modelo ELSE n3

\* ------------------------------------------------------------ path order
\* s < t in code-point order (Python's str comparison)
RECURSIVE StrLess(_, _)
StrLess(s, t) ==
  IF t = <<>> THEN FALSE
  ELSE IF s = <<>> THEN TRUE
  ELSE IF Head(s) = Head(t) THEN StrLess(Tail(s), Tail(t))
  ELSE ord(Head(s)) < ord(Head(t))

\* the file name of the input whose stem is name
FileName(name) == name \o <<".", "i", "f", "c">>

\* The inputs are named by their stems and ordered by their paths.
\* a listing in the reverse of the sorted order
RECURSIVE SortedByReverse(_)
SortedByReverse(S) ==
  IF S = {} THEN <<>>
  ELSE LET m == CHOOSE x \in S :
                  \A y \in S : x = y \/ StrLess(FileName(y), FileName(x))
       IN <<m>> \o SortedByReverse(S \ {m})

\* sorted(ifc_dir.glob("*.ifc")), line 211
RECURSIVE SortedPaths(_)
SortedPaths(S) ==
  IF S = {} THEN <<>>
  ELSE LET m == CHOOSE x \in S :
                  \A y \in S : x = y \/ StrLess(FileName(x), FileName(y))
       IN <<m>> \o SortedPaths(S \ {m})

\* --------------------------------------------------------- Python values
\* A Python value is a record tagged by t.  Strings are TLA+ strings here.
None == [t |-> "none"]

Str(x) == [t |-> "str", s |-> x]

IntV(x) == [t |-> "int", n |-> x]

BoolV(x) == [t |-> "bool", b |-> x]

\* a float, named by its repr
FloatV(x) == [t |-> "float", x |-> x]

\* a dict, its items in insertion order: a sequence of [k |-> key, v |-> value]
Dict(kvs) == [t |-> "dict", items |-> kvs]

List(xs) == [t |-> "list", elems |-> xs]

Tuple(xs) == [t |-> "tuple", elems |-> xs]

SetOf(xs) == [t |-> "set", elems |-> xs]

\* an ifcopenshell.entity_instance: str(v) gives s or raises; id() gives id
Entity(s, strOk, id) == [t |-> "entity", s |-> s, strOk |-> strOk, id |-> id]

\* an object with a callable item() (numpy scalar, 0-d array): item() gives
\* inner or raises; str(v) gives s or raises
Scalar(inner, itemOk, s, strOk) ==
  [t |-> "scalar", inner |-> inner, itemOk |-> itemOk, s |-> s, strOk |-> strOk]

\* any other object: str(v) gives s or raises
Obj(s, strOk) == [t |-> "obj", s |-> s, strOk |-> strOk]

\* the outcome "an exception propagates"
Raised == [t |-> "raised"]

\* bool(v)
Truthy(v) ==
  CASE v.t = "none" -> FALSE
    [] v.t = "str" -> v.s # ""
    [] v.t = "int" -> v.n # 0
    [] v.t = "bool" -> v.b
    [] v.t \in {"dict"} -> v.items # <<>>
    [] v.t \in {"list", "tuple", "set"} -> v.elems # <<>>
    [] OTHER -> TRUE

\* a or b
PyOr(a, b) == IF Truthy(a) THEN a ELSE b

\* whether str(v) returns: the str of a container is made of the repr of its
\* members
RECURSIVE StrOk(_)
StrOk(v) ==
  CASE v.t \in {"entity", "scalar", "obj"} -> v.strOk
    [] v.t = "dict" ->
         \A i \in 1..Len(v.items) : StrOk(v.items[i].k) /\ StrOk(v.items[i].v)
    [] v.t \in {"list", "tuple", "set"} ->
         \A i \in 1..Len(v.elems) : StrOk(v.elems[i])
    [] OTHER -> TRUE

\* the text of str(v), as a string value
StrText(v) ==
  CASE v.t \in {"entity", "scalar", "obj", "str"} -> v.s
    [] v.t = "none" -> "None"
    [] v.t = "int" -> ToString(v.n)
    [] v.t = "bool" -> IF v.b THEN "True" ELSE "False"
    [] v.t = "float" -> v.x
    [] v.t = "dict" -> "{...}"
    [] v.t = "list" -> "[...]"
    [] v.t = "tuple" -> "(...)"
    [] v.t = "set" -> "{..}"

\* str(v): a string value, or the exception
PyStr(v) == IF StrOk(v) THEN Str(StrText(v)) ELSE Raised

\* dict assignment d[k] = x on a sequence of items: a key already present
\* keeps its place and takes the new value
DictPut(kvs, k, x) ==
  IF \E i \in 1..Len(kvs) : kvs[i].k = k
  THEN [i \in 1..Len(kvs) |-> IF kvs[i].k = k THEN [k |-> k, v |-> x] ELSE kvs[i]]
  ELSE Append(kvs, [k |-> k, v |-> x])

\* ------------------------------------------------------------ to_jsonable
RECURSIVE to_jsonable(_)
to_jsonable(v) ==
  LET \* what the try block yields: a value, or Raised
      body ==
        CASE v.t = "entity" ->
               IF v.strOk THEN Str(v.s)
               ELSE Dict(<<[k |-> Str("id"), v |-> IntV(v.id)]>>)
          [] v.t \in {"str", "int", "float", "bool", "none"} -> v
          [] v.t = "dict" ->
               LET ks == [i \in 1..Len(v.items) |-> PyStr(v.items[i].k)]
                   vs == [i \in 1..Len(v.items) |-> to_jsonable(v.items[i].v)]
                   F[i \in 0..Len(v.items)] ==
                     IF i = 0 THEN <<>> ELSE DictPut(F[i-1], ks[i], vs[i])
               IN IF \E i \in 1..Len(v.items) : ks[i].t = "raised" \/ vs[i].t = "raised"
                  THEN Raised
                  ELSE Dict(F[Len(v.items)])
          [] v.t \in {"list", "tuple", "set"} ->
               LET xs == [i \in 1..Len(v.elems) |-> to_jsonable(v.elems[i])]
               IN IF \E i \in 1..Len(xs) : xs[i].t = "raised"
                  THEN Raised
                  ELSE List(xs)
          [] v.t = "scalar" ->
               IF v.itemOk THEN to_jsonable(v.inner) ELSE Raised
          \* no branch returns: fall out of the try block
          [] OTHER -> [t |-> "fallthrough"]
  IN IF body.t \in {"raised", "fallthrough"} THEN PyStr(v) ELSE body

\* -------------------------------------------------------- get_storey_name
\* A containment relationship: whether it has a RelatingStructure, whether
\* that structure is_a("IfcBuildingStorey"), its Name and LongName.
Rel(hasStruct, storey, name, longName) ==
  [hasStruct |-> hasStruct, storey |-> storey, Name |-> name, LongName |-> longName,
   bad |-> FALSE]

\* a relationship whose RelatingStructure, or its is_a(), raises when read
BadRel ==
  [hasStruct |-> TRUE, storey |-> TRUE, Name |-> None, LongName |-> None,
   bad |-> TRUE]

\* ContainedInStructure of an element: readable or not, and the relationships
Rels(readable, list) == [readable |-> readable, list |-> list]

\* the outcome "the loop ended and no return was executed"
NoReturn == [t |-> "noreturn"]

\* lines 101-104, from the relationship at position i on: the value
\* returned, Raised, or NoReturn
RECURSIVE ScanRels(_, _)
ScanRels(list, i) ==
  IF i > Len(list) THEN NoReturn
  ELSE IF list[i].bad THEN Raised
  ELSE IF list[i].hasStruct /\ list[i].storey
       THEN PyOr(list[i].Name, list[i].LongName)
  ELSE ScanRels(list, i + 1)

\* lines 99-104, the body of the try block
StoreyBody(elem) ==
  IF ~elem.rels.readable THEN Raised
  ELSE IF elem.rels.list = <<>> THEN NoReturn
  ELSE ScanRels(elem.rels.list, 1)

\* a lookup that passes over a storey without a name and takes the next one
RECURSIVE ScanNamed(_, _)
ScanNamed(list, i) ==
  IF i > Len(list) THEN NoReturn
  ELSE IF list[i].bad THEN Raised
  ELSE IF list[i].hasStruct /\ list[i].storey
          /\ Truthy(PyOr(list[i].Name, list[i].LongName))
       THEN PyOr(list[i].Name, list[i].LongName)
  ELSE ScanNamed(list, i + 1)

get_storey_name_named(elem) ==
  LET r == IF ~elem.rels.readable THEN Raised
           ELSE ScanNamed(elem.rels.list, 1)
  IN IF r.t \in {"raised", "noreturn"} THEN None ELSE r

\* lines 95-107: what the try block returned, or None after the handler or
\* the end of the loop
get_storey_name(elem) ==
  LET r == StoreyBody(elem)
  IN IF r.t \in {"raised", "noreturn"} THEN None ELSE r

\* --------------------------------------------------------------- elements
\* An element of model.by_type("IfcProduct"), by what each read of it gives:
\*   isa      "ok" or "raise": whether is_a(...) returns
\*   kind     what is_a() returns
\*   opening  what is_a("IfcOpeningElement") returns
\*   guid     GlobalId: "ok" (a GUID), "none" (no attribute, or None),
\*            "empty" (the empty string), "raise" (reading it raises)
\*   attrs    "ok" or "raise": whether reading is_a(), Name and Tag returns
\*   Name, Tag   the values read
\*   rels     ContainedInStructure
\*   psetsOk  whether get_psets(elem, include_inherited=True) returns
\*   psets    what it returns
\* GlobalId is unique within an IFC model: the GUID of the element at
\* position i of the sequence is i.
Elem(isa, kind, opening, guid, attrs, name, tag, rels, psetsOk, psets) ==
  [isa |-> isa, kind |-> kind, opening |-> opening, guid |-> guid,
   attrs |-> attrs, Name |-> name, Tag |-> tag, rels |-> rels,
   psetsOk |-> psetsOk, psets |-> psets]

StoreyL1 == Rels(TRUE, <<Rel(TRUE, TRUE, Str("L1"), None)>>)

\* a building first, then a storey that has only a LongName
StoreyLong ==
  Rels(TRUE, <<Rel(TRUE, FALSE, Str("Bldg"), None),
               Rel(TRUE, TRUE, None, Str("Level 2"))>>)

NoRels == Rels(TRUE, <<>>)

UnreadableRels == Rels(FALSE, <<>>)

PsetsWall ==
  Dict(<<[k |-> Str("Pset_WallCommon"),
          v |-> Dict(<<[k |-> Str("IsExternal"), v |-> BoolV(TRUE)],
                       [k |-> Str("Width"),
                        v |-> Scalar(FloatV("0.2"), TRUE, "0.2", TRUE)]>>)]>>)

\* a property value that neither converts nor prints
PsetsBroken ==
  Dict(<<[k |-> Str("Pset_X"),
          v |-> Dict(<<[k |-> Str("p"), v |-> Obj("?", FALSE)]>>)]>>)

EmptyDict == Dict(<<>>)

WallElem ==
  Elem("ok", "IfcWall", FALSE, "ok", "ok", Str("W1"), Str("T1"), StoreyL1, TRUE, PsetsWall)

\* get_psets raises for it
SlabPsetsFail ==
  Elem("ok", "IfcSlab", FALSE, "ok", "ok", None, None, StoreyLong, FALSE, EmptyDict)

\* its property sets do not convert
DoorPsetsBroken ==
  Elem("ok", "IfcDoor", FALSE, "ok", "ok", Str("D1"), None, UnreadableRels, TRUE, PsetsBroken)

OpeningElem ==
  Elem("ok", "IfcOpeningElement", TRUE, "ok", "ok", Str("O1"), None, NoRels, TRUE, EmptyDict)

\* IFC4 subtype of the opening element
OpeningStdCase ==
  Elem("ok", "IfcOpeningStandardCase", TRUE, "ok", "ok", None, None, StoreyL1, FALSE, EmptyDict)

WallNoGuid ==
  Elem("ok", "IfcWall", FALSE, "none", "ok", Str("W2"), None, StoreyL1, TRUE, PsetsWall)

WallEmptyGuid ==
  Elem("ok", "IfcWall", FALSE, "empty", "ok", Str("W3"), None, NoRels, TRUE, EmptyDict)

ElemIsaRaises ==
  Elem("raise", "IfcWall", FALSE, "ok", "ok", Str("W4"), None, NoRels, TRUE, EmptyDict)

ElemGuidRaises ==
  Elem("ok", "IfcWall", FALSE, "raise", "ok", Str("W5"), None, NoRels, TRUE, EmptyDict)

ElemAttrsRaise ==
  Elem("ok", "IfcWall", FALSE, "ok", "raise", Str("W6"), None, StoreyL1, TRUE, PsetsWall)

ElemProfiles ==
  { WallElem, SlabPsetsFail, DoorPsetsBroken, OpeningElem, OpeningStdCase,
    WallNoGuid, WallEmptyGuid, ElemIsaRaises, ElemGuidRaises, ElemAttrsRaise }

\* A model file: whether ifcopenshell.open and by_type return, and the
\* elements by_type("IfcProduct") returns.
Model(openOk, es) == [openOk |-> openOk, elems |-> es]

\* ------------------------------------------------------- extract_metadata
\* d[k] = x on a manifest (a function from GUID to record)
Put(d, k, x) == [y \in (DOMAIN d) \cup {k} |-> IF y = k THEN x ELSE d[y]]

\* the record of lines 135-146; cap: whether get_psets was imported
ItemOf(e, cap) ==
  LET core == [type |-> e.kind, name |-> e.Name, tag |-> e.Tag,
               storey |-> get_storey_name(e)]
      conv == IF e.psetsOk THEN to_jsonable(e.psets) ELSE Raised
  IN IF cap
     THEN [type |-> core.type, name |-> core.name, tag |-> core.tag,
           storey |-> core.storey,
           psets |-> IF conv.t = "raised" THEN EmptyDict ELSE conv]
     ELSE core

\* a skip test that compares the kind itself: it misses the subtypes
IsOpeningExactKind(e) == e.kind = "IfcOpeningElement"

\* elem.is_a("IfcOpeningElement"), line 129
IsOpening(e) == e.opening

\* a try block without the inner handler of lines 143-146: a failing
\* property-set query leaves the block
TryBodyPsetsPropagate(e, cap) ==
  IF e.isa = "raise" THEN "raise"
  ELSE IF IsOpening(e) THEN "continue"
  ELSE IF e.guid = "raise" THEN "raise"
  ELSE IF e.guid \in {"none", "empty"} THEN "continue"
  ELSE IF e.attrs = "raise" THEN "raise"
  ELSE IF cap /\ (~e.psetsOk \/ to_jsonable(e.psets).t = "raised") THEN "raise"
  ELSE "record"

\* the try block of one iteration, lines 129-147: "raise" (an exception
\* leaves the block), "continue" (the element is skipped), "record"
TryBody(e, cap) ==
  IF e.isa = "raise" THEN "raise"
  ELSE IF IsOpening(e) THEN "continue"
  ELSE IF e.guid = "raise" THEN "raise"
  ELSE IF e.guid \in {"none", "empty"} THEN "continue"
  ELSE IF e.attrs = "raise" THEN "raise"
  ELSE "record"

\* a per-element handler that lets the exception through
PerElementNoCatch(e, cap) == TryBody(e, cap)

\* one iteration with its handler, lines 128-150: except Exception: continue
PerElement(e, cap) ==
  IF TryBody(e, cap) = "raise" THEN "continue" ELSE TryBody(e, cap)

\* the loop from position i on, lines 127-150: whether an exception left
\* the loop, the manifest, and that the model was opened
RECURSIVE ExtractLoop(_, _, _, _)
ExtractLoop(es, i, d, cap) ==
  IF i > Len(es) THEN [raised |-> FALSE, out |-> d, opened |-> TRUE]
  ELSE LET r == PerElement(es[i], cap)
       IN IF r = "raise" THEN [raised |-> TRUE, out |-> d, opened |-> TRUE]
          ELSE IF r = "record"
               THEN ExtractLoop(es, i + 1, Put(d, i, ItemOf(es[i], cap)), cap)
               ELSE ExtractLoop(es, i + 1, d, cap)

\* an extraction that does not test for the library: without it, the call
\* of ifcopenshell.open raises
extract_metadata_unguarded(lib, cap, m) ==
  IF ~lib \/ ~m.openOk THEN [raised |-> TRUE, out |-> <<>>, opened |-> TRUE]
  ELSE ExtractLoop(m.elems, 1, <<>>, cap)

\* extract_metadata(ifc_path), lines 110-152; lib is "ifcopenshell is not
\* None", cap is whether get_psets can be imported; opened is whether
\* ifcopenshell.open was called
extract_metadata(lib, cap, m) ==
  IF ~lib THEN [raised |-> FALSE, out |-> <<>>, opened |-> FALSE]
  ELSE IF ~m.openOk THEN [raised |-> TRUE, out |-> <<>>, opened |-> TRUE]
  ELSE ExtractLoop(m.elems, 1, <<>>, cap)

\* ------------------------------------------------------------------ state
VARIABLES
  \* environment
  ifcopenshell,   \* whether the ifcopenshell module was imported (lines 34-37)
  hasGetPsets,    \* whether ifcopenshell.util.element.get_psets imports
  tpl,            \* which templates exist: [viewer, root]
  bin,            \* where an IfcConvert may be found: [user, env, path]
  ifcDirExists,   \* whether ifc_dir exists
  inputs,         \* the *.ifc files of ifc_dir: stem -> Model
  site,           \* site_dir: [exists, dirs, files]
  site0,          \* site_dir as it was before the run
  \* main
  pc,             \* position of main
  err,            \* the step whose exception ended main, or "none"
  ifcconvert_bin, \* which candidate find_ifcconvert returned
  todo,           \* the paths the loop of line 211 has not reached yet
  cur,            \* ifc_path.stem of the iteration
  models,         \* list[ModelEntry]
  calls,          \* the IfcConvert invocations of the run, in order
  run,            \* number of the run
  clock,          \* the wall clock: a position in Times
  writes,         \* how many times the run has written models.json
  prev,           \* the run before: whether it completed, and its models.json
  \* one call of extract_metadata, step by step
  exPc,           \* position of extract_metadata
  exOpenOk,       \* whether ifcopenshell.open and by_type return
  exOpened,       \* whether ifcopenshell.open has been called
  exElems,        \* model.by_type("IfcProduct")
  exIdx,          \* position of the loop of line 127
  exOut,          \* out
  \* one call of a pure function (slugify, to_jsonable, get_storey_name)
  callPc,         \* "call" before the call, "returned" or "raised" after it
  arg,            \* the argument
  result          \* what the call returned

envVars == <<ifcopenshell, hasGetPsets, tpl, bin, ifcDirExists, inputs>>

mainVars ==
  <<site, site0, pc, err, ifcconvert_bin, todo, cur, models, calls, run, clock,
    writes, prev>>

exVars == <<exPc, exOpenOk, exOpened, exElems, exIdx, exOut>>

fnVars == <<callPc, arg, result>>

vars == <<envVars, mainVars, exVars, fnVars>>

\* no pure function is being called
FnIdle ==
  /\ callPc = "idle"
  /\ arg = <<>>
  /\ result = <<>>

\* -------------------------------------------------------- extraction steps
\* lines 111-124: the library test, the open, the import of get_psets
ExtractBegin ==
  /\ exPc = "start"
  /\ IF ~ifcopenshell
     THEN /\ exPc' = "returned"
          /\ exOut' = <<>>
          /\ UNCHANGED <<exOpened, exIdx>>
     ELSE /\ exOpened' = TRUE
          /\ exPc' = IF exOpenOk THEN "loop" ELSE "raised"
          /\ exIdx' = 1
          /\ exOut' = <<>>
  /\ UNCHANGED <<envVars, mainVars, fnVars, exOpenOk, exElems>>

\* one iteration of the loop of line 127
ExtractElem ==
  /\ exPc = "loop"
  /\ exIdx <= Len(exElems)
  /\ LET e == exElems[exIdx]
         r == PerElement(e, hasGetPsets)
     IN /\ exPc' = IF r = "raise" THEN "raised" ELSE "loop"
        /\ exOut' = IF r = "record"
                    THEN Put(exOut, exIdx, ItemOf(e, hasGetPsets))
                    ELSE exOut
        /\ exIdx' = exIdx + 1
  /\ UNCHANGED <<envVars, mainVars, fnVars, exOpenOk, exOpened, exElems>>

\* line 152
ExtractReturn ==
  /\ exPc = "loop"
  /\ exIdx > Len(exElems)
  /\ exPc' = "returned"
  /\ UNCHANGED <<envVars, mainVars, fnVars, exOpenOk, exOpened, exElems, exIdx, exOut>>

SeqsUpTo(S, n) == UNION {[1..k -> S] : k \in 0..n}

\* the libraries that may be present: get_psets needs ifcopenshell
LibEnvs == {<<FALSE, FALSE>>, <<TRUE, FALSE>>, <<TRUE, TRUE>>}

MainIdle ==
  /\ tpl = [viewer |-> TRUE, root |-> TRUE]
  /\ bin = [user |-> "none", env |-> "none", path |-> TRUE]
  /\ ifcDirExists = FALSE
  /\ inputs = <<>>
  /\ site = [exists |-> FALSE, dirs |-> {}, files |-> <<>>]
  /\ site0 = site
  /\ pc = "idle"
  /\ err = "none"
  /\ ifcconvert_bin = "none"
  /\ todo = <<>>
  /\ cur = <<>>
  /\ models = <<>>
  /\ calls = <<>>
  /\ run = 1
  /\ clock = 1
  /\ writes = 0
  /\ prev = [done |-> FALSE, manifest |-> <<>>]

InitExtract ==
  /\ \E l \in LibEnvs : ifcopenshell = l[1] /\ hasGetPsets = l[2]
  /\ exOpenOk \in BOOLEAN
  /\ exElems \in SeqsUpTo(ElemProfiles, MaxElems)
  /\ exPc = "start"
  /\ exOpened = FALSE
  /\ exIdx = 0
  /\ exOut = <<>>
  /\ MainIdle
  /\ FnIdle

NextExtract == ExtractBegin \/ ExtractElem \/ ExtractReturn

SpecExtract == InitExtract /\ [][NextExtract]_vars

\* ------------------------------------------------------------ the inputs
NameA == <<"a">>

NameBTwo == <<"B", " ", "T", "w", "o">>

NameBTwoLower == <<"b", "-", "t", "w", "o">>

NameADashB == <<"a", "-", "b">>

NameBang == <<"!">>

\* the stems the files of ifc_dir may have
NamePool == {NameA, NameBTwo, NameBTwoLower, NameADashB, NameBang}

GoodModel == Model(TRUE, <<WallElem, OpeningElem, SlabPsetsFail>>)

\* a file ifcopenshell.open cannot read
UnopenableModel == Model(FALSE, <<>>)

ModelPool == {GoodModel, UnopenableModel}

InputSets ==
  UNION {[S -> ModelPool] : S \in {T \in SUBSET NamePool : Cardinality(T) <= MaxFiles}}

\* where an IfcConvert may be: the --ifcconvert argument and IFCCONVERT_BIN
\* are "none" (not given), "missing" (given, no such file) or "exists";
\* path is whether shutil.which finds a candidate
BinEnvs ==
  { [user |-> "exists", env |-> "none", path |-> FALSE],
    [user |-> "missing", env |-> "exists", path |-> FALSE],
    [user |-> "none", env |-> "missing", path |-> TRUE],
    [user |-> "missing", env |-> "missing", path |-> FALSE],
    [user |-> "none", env |-> "none", path |-> FALSE] }

\* the successive values datetime.now(timezone.utc).strftime(...) may give
\* during a build: the clock does not go back
Times == <<"2026-01-01 10:00 UTC", "2026-01-01 10:01 UTC">>

\* how one invocation of IfcConvert by run() ends: exit status 0, a
\* non-zero exit status, or the program cannot be executed
ConvOutcomes == {"ok", "CalledProcessError", "OSError"}

\* ------------------------------------------------------------- the site
\* A file of the site: its kind, the run that wrote it, the input it was
\* made from (<<>> for the files of the root) and its content.
FileRec(kind, r, src, data) == [kind |-> kind, run |-> r, src |-> src, data |-> data]

\* A path of the site is <<directory, file name>>; the root directory is <<>>.
Root == <<>>

NoSite == [exists |-> FALSE, dirs |-> {}, files |-> <<>>]

OldSlug == <<"o", "l", "d">>

\* what an earlier run left: a model that is no longer an input, a model
\* whose slug an input may have again, and a file the build never writes
StaleSite ==
  [exists |-> TRUE,
   dirs |-> {OldSlug, <<"a">>},
   files |->
     (<<Root, "index.html">> :> FileRec("root", 0, <<>>, <<>>))
     @@ (<<Root, "models.json">> :> FileRec("models", 0, <<>>, <<>>))
     @@ (<<Root, "notes.txt">> :> FileRec("other", 0, <<>>, <<>>))
     @@ (<<OldSlug, "model.glb">> :> FileRec("glb", 0, OldSlug, <<>>))
     @@ (<<OldSlug, "metadata.json">> :> FileRec("metadata", 0, OldSlug, <<>>))
     @@ (<<OldSlug, "index.html">> :> FileRec("viewer", 0, OldSlug, <<>>))
     @@ (<<<<"a">>, "metadata.json">> :> FileRec("metadata", 0, <<"a">>, <<>>))]

\* a clearing that keeps what is there (mkdir with exist_ok only)
ClearedKeepStale(s) == [exists |-> TRUE, dirs |-> s.dirs, files |-> s.files]

\* lines 205-207: shutil.rmtree(site_dir) if it exists, then mkdir
Cleared(s) == [exists |-> TRUE, dirs |-> {}, files |-> <<>>]

\* out_dir.mkdir(parents=True, exist_ok=True), line 216
Mkdir(s, dir) == [s EXCEPT !.dirs = @ \cup {dir}]

\* writing or copying a file to a path of the site
WriteFile(s, dir, fname, content) ==
  [s EXCEPT !.files = Put(@, <<dir, fname>>, content)]

\* ModelEntry, lines 170-174
ModelEntry(name, slug, updated) == [name |-> name, slug |-> slug, updated |-> updated]

\* a manifest that keeps the entries of the models.json found in the output
\* root when the run began, and appends this run's entries to them
models_json_append(ms) ==
  LET old == IF <<Root, "models.json">> \in DOMAIN site0.files
             THEN site0.files[<<Root, "models.json">>].data
             ELSE <<>>
  IN old \o [i \in 1..Len(ms) |->
              [name |-> ms[i].name, path |-> ms[i].slug, updated |-> ms[i].updated]]

\* line 236
models_json(ms) ==
  [i \in 1..Len(ms) |->
     [name |-> ms[i].name, path |-> ms[i].slug, updated |-> ms[i].updated]]

\* a lookup that falls back to the bare program name when nothing is found
find_ifcconvert_default(b) ==
  IF b.user = "exists" THEN "user"
  ELSE IF b.env = "exists" THEN "env"
  ELSE "path"

\* find_ifcconvert, lines 52-68: which candidate is returned, or "notfound"
\* (FileNotFoundError)
find_ifcconvert(b) ==
  IF b.user = "exists" THEN "user"
  ELSE IF b.env = "exists" THEN "env"
  ELSE IF b.path THEN "path"
  ELSE "notfound"

\* ------------------------------------------------------------------- main
\* an error that ends the loop but still publishes what was recorded
FatalThenManifest(step) == pc' = "manifest" /\ err' = step

\* an exception that leaves main: the build stops with exit status 1
Fatal(step) == pc' = "fatal" /\ err' = step

\* lines 193-196
CheckTemplates ==
  /\ pc = "main"
  /\ IF ~tpl.viewer \/ ~tpl.root
     THEN Fatal("templates")
     ELSE pc' = "find" /\ err' = err
  /\ UNCHANGED <<envVars, fnVars, prev, exVars, site, site0, ifcconvert_bin, todo, cur, models, calls, run, clock, writes>>

\* line 198
FindIfcconvert ==
  /\ pc = "find"
  /\ IF find_ifcconvert(bin) = "notfound"
     THEN Fatal("find_ifcconvert") /\ ifcconvert_bin' = ifcconvert_bin
     ELSE pc' = "ifcdir" /\ err' = err /\ ifcconvert_bin' = find_ifcconvert(bin)
  /\ UNCHANGED <<envVars, fnVars, prev, exVars, site, site0, todo, cur, models, calls, run, clock, writes>>

\* a build that goes on to clear the output root without looking for ifc_dir
CheckIfcDirSkipped ==
  /\ pc = "ifcdir"
  /\ pc' = "clear"
  /\ UNCHANGED <<envVars, fnVars, prev, exVars, site, site0, err, ifcconvert_bin, todo, cur, models, calls, run, clock, writes>>

\* lines 200-202
CheckIfcDir ==
  /\ pc = "ifcdir"
  /\ pc' = IF ifcDirExists THEN "clear" ELSE "noop"
  /\ UNCHANGED <<envVars, fnVars, prev, exVars, site, site0, err, ifcconvert_bin, todo, cur, models, calls, run, clock, writes>>

\* lines 204-211: the site is cleared, models is empty, the inputs are listed
\* in sorted order
ClearSite ==
  /\ pc = "clear"
  /\ site' = Cleared(site)
  /\ models' = <<>>
  /\ todo' = SortedPaths(DOMAIN inputs)
  /\ pc' = IF todo' = <<>> THEN "manifest" ELSE "mkdir"
  /\ UNCHANGED <<envVars, fnVars, prev, exVars, site0, err, ifcconvert_bin, cur, calls, run, clock, writes>>

\* lines 211-222: the next input, its slug, its directory
BeginModel ==
  /\ pc = "mkdir"
  /\ cur' = Head(todo)
  /\ site' = Mkdir(site, slugify(Head(todo)))
  /\ pc' = "convert"
  /\ UNCHANGED <<envVars, fnVars, prev, exVars, site0, err, ifcconvert_bin, todo, models, calls, run, clock, writes>>

\* a conversion that gives up after the first invocation
ConvertOnce ==
  /\ pc = "convert"
  /\ \E r \in ConvOutcomes :
       /\ calls' = Append(calls, [name |-> cur, guids |-> TRUE, result |-> r])
       /\ \/ /\ r = "ok"
             /\ site' = WriteFile(site, slugify(cur), "model.glb", FileRec("glb", run, cur, <<>>))
             /\ pc' = "extract" /\ err' = err
          \/ /\ r # "ok"
             /\ Fatal("convert") /\ site' = site
  /\ UNCHANGED <<envVars, fnVars, prev, exVars, site0, ifcconvert_bin, todo, cur, models, run, clock, writes>>

\* lines 156-164: the invocation with --use-element-guids
Convert ==
  /\ pc = "convert"
  /\ \E r \in ConvOutcomes :
       /\ calls' = Append(calls, [name |-> cur, guids |-> TRUE, result |-> r])
       /\ \/ /\ r = "ok"
             /\ site' = WriteFile(site, slugify(cur), "model.glb", FileRec("glb", run, cur, <<>>))
             /\ pc' = "extract" /\ err' = err
          \/ /\ r = "CalledProcessError"
             /\ pc' = "retry" /\ err' = err /\ site' = site
          \/ /\ r = "OSError"
             /\ Fatal("convert") /\ site' = site
  /\ UNCHANGED <<envVars, fnVars, prev, exVars, site0, ifcconvert_bin, todo, cur, models, run, clock, writes>>

\* lines 165-167: the invocation without --use-element-guids
ConvertRetry ==
  /\ pc = "retry"
  /\ \E r \in ConvOutcomes :
       /\ calls' = Append(calls, [name |-> cur, guids |-> FALSE, result |-> r])
       /\ \/ /\ r = "ok"
             /\ site' = WriteFile(site, slugify(cur), "model.glb", FileRec("glb", run, cur, <<>>))
             /\ pc' = "extract" /\ err' = err
          \/ /\ r # "ok"
             /\ Fatal("convert") /\ site' = site
  /\ UNCHANGED <<envVars, fnVars, prev, exVars, site0, ifcconvert_bin, todo, cur, models, run, clock, writes>>

\* a loop that gives up the model whose extraction raised and goes on with
\* the next one
ExtractAndWriteOrSkip ==
  /\ pc = "extract"
  /\ LET r == extract_metadata(ifcopenshell, hasGetPsets, inputs[cur])
     IN /\ exOpened' = (exOpened \/ r.opened)
        /\ IF r.raised
           THEN /\ err' = "extract" /\ site' = site /\ todo' = Tail(todo)
                /\ pc' = IF Tail(todo) = <<>> THEN "manifest" ELSE "mkdir"
           ELSE /\ site' = WriteFile(site, slugify(cur), "metadata.json",
                                     FileRec("metadata", run, cur, r.out))
                /\ pc' = "viewer" /\ err' = err /\ todo' = todo
  /\ UNCHANGED <<envVars, fnVars, prev, exPc, exOpenOk, exElems, exIdx, exOut>>
  /\ UNCHANGED <<site0, ifcconvert_bin, cur, models, calls, run, clock, writes>>

\* lines 225-227: the metadata is extracted and metadata.json written
ExtractAndWrite ==
  /\ pc = "extract"
  /\ LET r == extract_metadata(ifcopenshell, hasGetPsets, inputs[cur])
     IN /\ exOpened' = (exOpened \/ r.opened)
        /\ IF r.raised
           THEN Fatal("extract") /\ site' = site
           ELSE /\ site' = WriteFile(site, slugify(cur), "metadata.json",
                                     FileRec("metadata", run, cur, r.out))
                /\ pc' = "viewer" /\ err' = err
  /\ UNCHANGED <<envVars, fnVars, prev, exPc, exOpenOk, exElems, exIdx, exOut>>
  /\ UNCHANGED <<site0, ifcconvert_bin, todo, cur, models, calls, run, clock, writes>>

\* a loop that republishes models.json after every model
CopyViewerRecordAndPublish ==
  /\ pc = "viewer"
  /\ \E t \in clock..Len(Times) :
       /\ clock' = t
       /\ models' = Append(models, ModelEntry(cur, slugify(cur), Times[t]))
  /\ site' = WriteFile(
               WriteFile(site, slugify(cur), "index.html", FileRec("viewer", run, cur, <<>>)),
               Root, "models.json", FileRec("models", run, <<>>, models_json(models')))
  /\ todo' = Tail(todo)
  /\ pc' = IF Tail(todo) = <<>> THEN "manifest" ELSE "mkdir"
  /\ UNCHANGED <<envVars, fnVars, prev, exVars, site0, err, ifcconvert_bin, cur, calls, run, writes>>

\* lines 229-233: the viewer is copied and the ModelEntry appended
CopyViewerAndRecord ==
  /\ pc = "viewer"
  /\ site' = WriteFile(site, slugify(cur), "index.html", FileRec("viewer", run, cur, <<>>))
  /\ \E t \in clock..Len(Times) :
       /\ clock' = t
       /\ models' = Append(models, ModelEntry(cur, slugify(cur), Times[t]))
  /\ todo' = Tail(todo)
  /\ pc' = IF Tail(todo) = <<>> THEN "manifest" ELSE "mkdir"
  /\ UNCHANGED <<envVars, fnVars, prev, exVars, site0, err, ifcconvert_bin, cur, calls, run, writes>>

\* lines 235-237
WriteModelsJson ==
  /\ pc = "manifest"
  /\ site' = WriteFile(site, Root, "models.json", FileRec("models", run, <<>>, models_json(models)))
  /\ writes' = writes + 1
  /\ pc' = "root"
  /\ UNCHANGED <<envVars, fnVars, prev, exVars, site0, err, ifcconvert_bin, todo, cur, models, calls, run, clock>>

\* line 240
CopyRootIndex ==
  /\ pc = "root"
  /\ site' = WriteFile(site, Root, "index.html", FileRec("root", run, <<>>, <<>>))
  /\ pc' = "done"
  /\ UNCHANGED <<envVars, fnVars, prev, exVars, site0, err, ifcconvert_bin, todo, cur, models, calls, run, clock, writes>>

ExtractIdle ==
  /\ exPc = "idle"
  /\ exOpenOk = TRUE
  /\ exOpened = FALSE
  /\ exElems = <<>>
  /\ exIdx = 0
  /\ exOut = <<>>

Init ==
  /\ \E l \in LibEnvs : ifcopenshell = l[1] /\ hasGetPsets = l[2]
  /\ tpl \in [viewer : BOOLEAN, root : BOOLEAN]
  /\ bin \in BinEnvs
  /\ ifcDirExists \in BOOLEAN
  /\ inputs \in IF ifcDirExists THEN InputSets ELSE {<<>>}
  /\ site \in {NoSite, StaleSite}
  /\ site0 = site
  /\ pc = "main"
  /\ err = "none"
  /\ ifcconvert_bin = "none"
  /\ todo = <<>>
  /\ cur = <<>>
  /\ models = <<>>
  /\ calls = <<>>
  /\ run = 1
  /\ clock = 1
  /\ writes = 0
  /\ prev = [done |-> FALSE, manifest |-> <<>>]
  /\ ExtractIdle
  /\ FnIdle

Next ==
  \/ CheckTemplates
  \/ FindIfcconvert
  \/ CheckIfcDir
  \/ ClearSite
  \/ BeginModel
  \/ Convert
  \/ ConvertRetry
  \/ ExtractAndWrite
  \/ CopyViewerAndRecord
  \/ WriteModelsJson
  \/ CopyRootIndex

Spec == Init /\ [][Next]_vars

(***************************************************************************)
(* Two builds, one after the other, on the same inputs and environment.    *)
(* The second call of main starts from the output root the first one left  *)
(* and from the same ifc directory, templates and binaries; its local      *)
(* variables are fresh.  prev keeps what the first build ended with.       *)
(***************************************************************************)

Rerun ==
  /\ run = 1
  /\ pc \in {"done", "fatal", "noop"}
  /\ prev' = [done |-> pc = "done",
              manifest |-> IF pc = "done"
                           THEN site.files[<<Root, "models.json">>].data
                           ELSE <<>>]
  /\ run' = run + 1
  /\ site0' = site
  /\ pc' = "main"
  /\ err' = "none"
  /\ ifcconvert_bin' = "none"
  /\ todo' = <<>>
  /\ cur' = <<>>
  /\ models' = <<>>
  /\ calls' = <<>>
  /\ writes' = 0
  /\ UNCHANGED <<envVars, fnVars, exVars, site, clock>>

NextTwoRuns == Next \/ Rerun

SpecTwoRuns == Init /\ [][NextTwoRuns]_vars

(***************************************************************************)
(* One call of a pure function on an argument drawn from a bounded set.    *)
(***************************************************************************)

\* the rest of the program is not running
EnvIdle ==
  /\ ifcopenshell = FALSE
  /\ hasGetPsets = FALSE
  /\ MainIdle
  /\ ExtractIdle

\* the characters file stems are made of here: a lower-case and an
\* upper-case letter, a digit, hyphen, underscore, space, no-break space,
\* a punctuation mark, e acute and long s
SlugChars == {"a", "B", "0", "-", "_", " ", "!", "U00A0", "U00E9", "U017F"}

InitSlugify ==
  /\ EnvIdle
  /\ callPc = "call"
  /\ arg \in SeqsUpTo(SlugChars, MaxLen)
  /\ result = <<>>

\* lines 40-44
SlugifyCall ==
  /\ callPc = "call"
  /\ result' = slugify(arg)
  /\ callPc' = "returned"
  /\ UNCHANGED <<envVars, mainVars, exVars, arg>>

SpecSlugify == InitSlugify /\ [][SlugifyCall]_vars

\* values that are not containers: the primitives, entity instances whose
\* str() returns or raises, objects with an item() that returns or raises,
\* and other objects whose str() returns or raises
Atoms ==
  { None, Str("x"), Str("1"), IntV(1), BoolV(TRUE), FloatV("1.5"),
    Entity("IfcLabel(A)", TRUE, 7), Entity("", FALSE, 7),
    Scalar(IntV(1), TRUE, "1", TRUE), Scalar(None, FALSE, "s", TRUE),
    Scalar(FloatV("1.5"), TRUE, "", FALSE),
    Obj("obj", TRUE), Obj("", FALSE) }

\* the keys of the dicts: strings, and an int whose str() is one of them
Keys == {Str("x"), Str("1"), IntV(1)}

\* sequences without repetition (the keys of a dict, the members of a set)
Distinct(xs) == \A i, j \in 1..Len(xs) : i # j => xs[i] # xs[j]

\* the lists, tuples, sets and dicts of at most n members from S
ContainersOf(S, n) ==
  LET seqs == SeqsUpTo(S, n)
      items == SeqsUpTo([k : Keys, v : S], n)
  IN {List(xs) : xs \in seqs}
     \cup {Tuple(xs) : xs \in seqs}
     \cup {SetOf(xs) : xs \in {ys \in seqs : Distinct(ys)}}
     \cup {Dict(kvs) : kvs \in {is \in items :
                                  Distinct([i \in 1..Len(is) |-> is[i].k])}}

\* containers in containers, and an item() that returns a container
Nested ==
  LET inner == ContainersOf(Atoms, 1)
  IN ContainersOf(inner, 1)
     \cup {List(<<x, y>>) : x \in {Tuple(<<IntV(1)>>)}, y \in inner}
     \cup {Scalar(x, TRUE, "arr", TRUE) : x \in inner}

JsonInputs == Atoms \cup ContainersOf(Atoms, MaxWidth) \cup Nested

\* to_jsonable is only called where ifcopenshell and get_psets were imported
\* (line 144)
InitJsonable ==
  /\ ifcopenshell = TRUE
  /\ hasGetPsets = TRUE
  /\ MainIdle
  /\ ExtractIdle
  /\ callPc = "call"
  /\ arg \in JsonInputs
  /\ result = <<>>

\* lines 71-92
JsonableCall ==
  /\ callPc = "call"
  /\ LET r == to_jsonable(arg)
     IN /\ result' = r
        /\ callPc' = IF r.t = "raised" THEN "raised" ELSE "returned"
  /\ UNCHANGED <<envVars, mainVars, exVars, arg>>

SpecJsonable == InitJsonable /\ [][JsonableCall]_vars

\* the containment relationships an element may have: one without a
\* structure, a building, storeys with both names, with a LongName only,
\* with an empty Name, with neither name, and one that raises when read
RelPool ==
  { Rel(FALSE, FALSE, None, None),
    Rel(TRUE, FALSE, Str("Bldg"), None),
    Rel(TRUE, TRUE, Str("L1"), Str("Level 1")),
    Rel(TRUE, TRUE, None, Str("Level 2")),
    Rel(TRUE, TRUE, Str(""), Str("Ground")),
    Rel(TRUE, TRUE, None, None),
    BadRel }

InitStorey ==
  /\ EnvIdle
  /\ callPc = "call"
  /\ arg \in {[rels |-> Rels(TRUE, l)] : l \in SeqsUpTo(RelPool, MaxRels)}
            \cup {[rels |-> UnreadableRels]}
  /\ result = <<>>

\* lines 95-107
StoreyCall ==
  /\ callPc = "call"
  /\ LET r == get_storey_name(arg)
     IN /\ result' = r
        /\ callPc' = IF r.t = "raised" THEN "raised" ELSE "returned"
  /\ UNCHANGED <<envVars, mainVars, exVars, arg>>

SpecStorey == InitStorey /\ [][StoreyCall]_vars

\* ------------------------------------------------- claims on extraction
\* what the reads of an element give, stated on the element alone
ElemIsOpening(e) == e.isa = "ok" /\ e.opening

ElemLacksGuid(e) == e.guid \in {"none", "empty"}

\* a read of the kind, the GUID or a core attribute raises
ElemFails(e) ==
  \/ e.isa = "raise"
  \/ e.isa = "ok" /\ ~e.opening /\ e.guid = "raise"
  \/ e.isa = "ok" /\ ~e.opening /\ e.guid = "ok" /\ e.attrs = "raise"

\* non-opening, with a GUID, and every core read returns
ElemGood(e) ==
  e.isa = "ok" /\ ~e.opening /\ e.guid = "ok" /\ e.attrs = "ok"

\* the property-set query of the element raises, or its result does not
\* convert
ElemPsetsFail(e) == ~e.psetsOk \/ to_jsonable(e.psets).t = "raised"

Positions == 1..Len(exElems)

\* C1: an exception raised while building one element's record never leaves
\* extract_metadata (only a failing open does); the failing element alone is
\* dropped, and every non-opening element with a GUID whose reads return has
\* its own record in the manifest, before and after a failing element.
C1_FailureIsolation ==
  /\ exPc = "raised" => ~exOpenOk
  /\ exPc = "returned" /\ ifcopenshell => exIdx = Len(exElems) + 1
  /\ \A i \in Positions :
       i < exIdx /\ exPc \in {"loop", "returned"} =>
         /\ ElemGood(exElems[i]) =>
              /\ i \in DOMAIN exOut
              /\ exOut[i].type = exElems[i].kind
              /\ exOut[i].name = exElems[i].Name
              /\ exOut[i].tag = exElems[i].Tag
              /\ exOut[i].storey = get_storey_name(exElems[i])
         /\ ElemFails(exElems[i]) => i \notin DOMAIN exOut

\* C1 witness: a returned manifest where a failing element stands between
\* two good ones, both recorded
C1_Witness ==
  /\ exPc = "returned"
  /\ \E i, j, k \in Positions :
       /\ i < j /\ j < k
       /\ ElemGood(exElems[i]) /\ ElemFails(exElems[j]) /\ ElemGood(exElems[k])
       /\ {i, k} \subseteq DOMAIN exOut
       /\ j \notin DOMAIN exOut

\* an element the claim's M' counts: dropped for a failing read, and not
\* already counted as lacking a GUID
ElemFailsWithGuid(e) == ElemFails(e) /\ ~ElemLacksGuid(e)

\* C2 as stated: of N elements, K lacking a GUID and M' dropped for
\* unrecoverable errors, the manifest has exactly N - K - M' entries.
C2_AsStated ==
  exPc = "returned" /\ ifcopenshell =>
    Cardinality(DOMAIN exOut) =
      Len(exElems)
        - Cardinality({i \in Positions : ElemLacksGuid(exElems[i])})
        - Cardinality({i \in Positions : ElemFailsWithGuid(exElems[i])})

\* the non-opening elements that lack a GUID
ElemSkippedNoGuid(e) == e.isa = "ok" /\ ~e.opening /\ ElemLacksGuid(e)

\* C2 amended: the manifest holds exactly the non-opening elements with a
\* GUID whose kind, GUID and core attributes are read without error, that is
\* N - O - K - M' entries (O openings, K non-openings without GUID, M' failing
\* reads); a failing property-set query alone never drops an element.
C2_EntryCount ==
  exPc = "returned" /\ ifcopenshell =>
    /\ DOMAIN exOut = {i \in Positions : ElemGood(exElems[i])}
    /\ Cardinality(DOMAIN exOut) =
         Len(exElems)
           - Cardinality({i \in Positions : ElemIsOpening(exElems[i])})
           - Cardinality({i \in Positions : ElemSkippedNoGuid(exElems[i])})
           - Cardinality({i \in Positions : ElemFails(exElems[i])})
    /\ \A i \in Positions :
         ElemGood(exElems[i]) /\ ElemPsetsFail(exElems[i]) => i \in DOMAIN exOut

\* C2 witness: a returned manifest of a model with an opening that has a
\* GUID, an element without GUID, and a kept element whose property-set
\* query fails
C2_Witness ==
  /\ exPc = "returned" /\ ifcopenshell /\ hasGetPsets
  /\ \E i, j, k \in Positions :
       /\ ElemIsOpening(exElems[i]) /\ exElems[i].guid = "ok"
       /\ ElemSkippedNoGuid(exElems[j])
       /\ ElemGood(exElems[k]) /\ ElemPsetsFail(exElems[k])
       /\ k \in DOMAIN exOut

\* C3: every record of the manifest has a psets field holding a mapping, the
\* empty mapping when get_psets is unavailable or the query fails.
C3_PsetsAlwaysMapping ==
  \A i \in DOMAIN exOut :
    /\ "psets" \in DOMAIN exOut[i]
    /\ exOut[i].psets.t = "dict"
    /\ ~hasGetPsets \/ ElemPsetsFail(exElems[i]) => exOut[i].psets = EmptyDict

\* the kinds is_a() gives for an opening
OpeningKinds == {"IfcOpeningElement", "IfcOpeningStandardCase"}

\* C4: no opening element has a record in the manifest, at any time of the
\* extraction.
C4_NoOpeningInManifest ==
  /\ \A i \in Positions : exElems[i].opening => i \notin DOMAIN exOut
  /\ \A g \in DOMAIN exOut : exOut[g].type \notin OpeningKinds

\* C4 witness: a returned manifest of a model that has an opening with a
\* GUID, an opening of the subtype, a failing element and a recorded one
C4_Witness ==
  /\ exPc = "returned"
  /\ \E i, j, k \in Positions :
       /\ ElemIsOpening(exElems[i]) /\ exElems[i].guid = "ok"
       /\ i \notin DOMAIN exOut
       /\ ElemFails(exElems[j])
       /\ ElemGood(exElems[k]) /\ k \in DOMAIN exOut
  /\ \E i \in Positions : exElems[i].kind = "IfcOpeningStandardCase"

\* ----------------------------------------------------- claims on the build
SlugBTwo == <<"b", "-", "t", "w", "o">>

ModelsJsonPath == <<Root, "models.json">>

\* the content of the models.json this run wrote
WrittenManifest == site.files[ModelsJsonPath].data

ManifestWritten == pc \in {"root", "done"}

\* C5: within one run the slugs of the ModelEntry records are pairwise
\* distinct.
C5_SlugsDistinct ==
  \A i, j \in 1..Len(models) : i # j => models[i].slug # models[j].slug

\* C6: the entries of the models.json a build wrote are in the code-point
\* order of their source file names, one entry per input file.
C6_ManifestSorted ==
  ManifestWritten =>
    /\ ModelsJsonPath \in DOMAIN site.files
    /\ site.files[ModelsJsonPath].run = run
    /\ Len(WrittenManifest) = Cardinality(DOMAIN inputs)
    /\ {WrittenManifest[i].name : i \in 1..Len(WrittenManifest)} = DOMAIN inputs
    /\ \A i, j \in 1..Len(WrittenManifest) :
         i < j => StrLess(FileName(WrittenManifest[i].name),
                          FileName(WrittenManifest[j].name))

\* C6 witness: a completed build whose manifest lists "a-b" before "a" and
\* an upper-case name before them
C6_Witness ==
  /\ pc = "done"
  /\ Len(WrittenManifest) = 3
  /\ WrittenManifest[1].name = NameBTwo
  /\ WrittenManifest[2].name = NameADashB
  /\ WrittenManifest[3].name = NameA

TwoFileCase == pc = "done" /\ DOMAIN inputs = {NameA, NameBTwo}

\* C7 as stated: with the inputs a.ifc and "B Two.ifc", the directories a/
\* and b-two/ exist and models.json lists a before b-two.
C7_AsStated ==
  TwoFileCase =>
    /\ site.dirs = {<<"a">>, SlugBTwo}
    /\ \E i, j \in 1..Len(WrittenManifest) :
         /\ i < j
         /\ WrittenManifest[i].path = <<"a">>
         /\ WrittenManifest[j].path = SlugBTwo

\* C7 amended: with the inputs a.ifc and "B Two.ifc", the directories a/ and
\* b-two/ exist and models.json lists b-two before a, as the paths sort by
\* code point ("B" before "a").
C7_TwoFiles ==
  TwoFileCase =>
    /\ site.dirs = {<<"a">>, SlugBTwo}
    /\ Len(WrittenManifest) = 2
    /\ WrittenManifest[1].name = NameBTwo /\ WrittenManifest[1].path = SlugBTwo
    /\ WrittenManifest[2].name = NameA /\ WrittenManifest[2].path = <<"a">>

\* C7 witness: the build of exactly these two files has completed
C7_Witness == TwoFileCase /\ Len(WrittenManifest) = 2

\* no candidate for the conversion binary exists
BinaryMissing == bin.user # "exists" /\ bin.env # "exists" /\ ~bin.path

PrerequisiteMissing == ~tpl.viewer \/ ~tpl.root \/ BinaryMissing

\* C8: when a template or the conversion binary is missing, the run ends
\* fatally at the checks and the site stays exactly as it was: not cleared,
\* not created, nothing written.
C8_FatalBeforeOutput ==
  PrerequisiteMissing =>
    /\ site = site0
    /\ pc \in {"main", "find", "fatal"}
    /\ pc = "fatal" => err \in {"templates", "find_ifcconvert"}
    /\ calls = <<>> /\ models = <<>>

\* C8 witness: a run that ended at the missing binary, with inputs to build
\* and an earlier site still in place
C8_Witness ==
  /\ pc = "fatal" /\ err = "find_ifcconvert"
  /\ tpl.viewer /\ tpl.root /\ BinaryMissing
  /\ ifcDirExists /\ DOMAIN inputs # {}
  /\ site0 = StaleSite /\ site = StaleSite

\* main is past the clearing step
PastClearing ==
  \/ pc \in {"mkdir", "convert", "retry", "extract", "viewer", "manifest", "root", "done"}
  \/ pc = "fatal" /\ err \in {"convert", "extract"}

InputSlugs == {slugify(n) : n \in DOMAIN inputs}

\* the paths a run may write, given the slugs of its inputs
ArtifactPath(p, slugs) ==
  \/ p[1] = Root /\ p[2] \in {"index.html", "models.json"}
  \/ p[1] \in slugs /\ p[2] \in {"model.glb", "metadata.json", "index.html"}

\* C9: once the site is cleared, it holds only what this run wrote: the two
\* root files and the three files of each input's slug directory; nothing of
\* an earlier run survives.
C9_NothingSurvives ==
  PastClearing =>
    LET slugs == InputSlugs
    IN /\ site.exists
       /\ site.dirs \subseteq slugs
       /\ \A p \in DOMAIN site.files :
            /\ site.files[p].run = run
            /\ ArtifactPath(p, slugs)
            /\ p[1] # Root => p[1] \in site.dirs /\ site.files[p].src \in DOMAIN inputs

\* C9 witness: a completed build over an earlier site whose models are not
\* inputs any more
C9_Witness ==
  /\ pc = "done"
  /\ site0 = StaleSite
  /\ DOMAIN inputs # {}
  /\ NameA \notin DOMAIN inputs
  /\ <<Root, "notes.txt">> \notin DOMAIN site.files

MetadataPath(slug) == <<slug, "metadata.json">>

\* the metadata.json of the slug was written by this run and holds {}
EmptyMetadataWritten(slug) ==
  /\ MetadataPath(slug) \in DOMAIN site.files
  /\ site.files[MetadataPath(slug)].run = run
  /\ site.files[MetadataPath(slug)].data = <<>>

\* C10: without ifcopenshell the extraction never opens a model and never
\* raises, whether or not the file could be opened; every metadata.json of
\* the run holds {}, and a completed build lists one entry per input file.
C10_DegradedMode ==
  ~ifcopenshell =>
    /\ ~exOpened
    /\ err # "extract"
    /\ pc = "viewer" => EmptyMetadataWritten(slugify(cur))
    /\ \A i \in 1..Len(models) : EmptyMetadataWritten(models[i].slug)
    /\ pc = "done" =>
         /\ Len(WrittenManifest) = Cardinality(DOMAIN inputs)
         /\ {WrittenManifest[i].name : i \in 1..Len(WrittenManifest)} = DOMAIN inputs
         /\ \A n \in DOMAIN inputs : EmptyMetadataWritten(slugify(n))

\* C10 witness: a completed build without ifcopenshell, of two or more files,
\* one of which ifcopenshell.open could not have read
C10_Witness ==
  /\ ~ifcopenshell
  /\ pc = "done"
  /\ Cardinality(DOMAIN inputs) >= 2
  /\ \E n \in DOMAIN inputs : inputs[n] = UnopenableModel
  /\ \A n \in DOMAIN inputs : EmptyMetadataWritten(slugify(n))
  /\ ~exOpened

\* the names and paths of a manifest, in order, without the time stamps
NamesAndPaths(m) == [i \in 1..Len(m) |-> [name |-> m[i].name, path |-> m[i].path]]

BothRunsCompleted == run = 2 /\ pc = "done" /\ prev.done /\ ~ifcopenshell

\* C11: when two builds run one after the other on the same inputs, both
\* without ifcopenshell and both with every conversion succeeding, the
\* models.json of the second has the same length, order, names and paths as
\* that of the first, whatever the first left in the output root.
C11_RerunSameManifest ==
  BothRunsCompleted =>
    /\ site.files[ModelsJsonPath].run = run
    /\ Len(WrittenManifest) = Len(prev.manifest)
    /\ NamesAndPaths(WrittenManifest) = NamesAndPaths(prev.manifest)

\* C11 witness: a second build over three files completed after a first one
\* that had started from a stale output root, with a later time stamp
C11_Witness ==
  /\ BothRunsCompleted
  /\ Len(prev.manifest) = 3
  /\ prev.manifest[1].name = NameBTwo
  /\ WrittenManifest # prev.manifest
  /\ <<OldSlug, "model.glb">> \notin DOMAIN site.files

\* the characters of [a-z0-9-_]
SlugSafe == AsciiLower \cup Digits \cup {"-", "_"}

NoDoubleHyphen(s) == \A i \in 1..(Len(s) - 1) : ~(s[i] = "-" /\ s[i+1] = "-")

\* C12: for every string s, slugify(s) is non-empty, made only of characters
\* of [a-z0-9-_], has no two hyphens in a row, neither starts nor ends with
\* a hyphen, and slugify(slugify(s)) = slugify(s).
C12_SlugWellFormed ==
  callPc = "returned" =>
    /\ result # <<>>
    /\ \A i \in 1..Len(result) : result[i] \in SlugSafe
    /\ NoDoubleHyphen(result)
    /\ result[1] # "-" /\ result[Len(result)] # "-"
    /\ slugify(result) = result

\* the same without the character set: what slugify does guarantee
C12_ShapeAndIdempotence ==
  callPc = "returned" =>
    /\ result # <<>>
    /\ NoDoubleHyphen(result)
    /\ result[1] # "-" /\ result[Len(result)] # "-"
    /\ slugify(result) = result
    /\ \A i \in 1..Len(result) : result[i] \in SlugSafe \cup {"U017F"}

\* a value json can hold: a primitive, a dict with string keys, a list
RECURSIVE JsonSafe(_)
JsonSafe(v) ==
  CASE v.t \in {"none", "str", "int", "float", "bool"} -> TRUE
    [] v.t = "dict" ->
         \A i \in 1..Len(v.items) :
           v.items[i].k.t = "str" /\ JsonSafe(v.items[i].v)
    [] v.t = "list" -> \A i \in 1..Len(v.elems) : JsonSafe(v.elems[i])
    [] OTHER -> FALSE

\* C13: for every input, to_jsonable returns without raising, its result
\* holds only primitives, string-keyed mappings and sequences, and
\* to_jsonable(to_jsonable(x)) = to_jsonable(x).
C13_TotalAndIdempotent ==
  callPc # "call" =>
    /\ callPc = "returned"
    /\ JsonSafe(result)
    /\ to_jsonable(result) = result

\* what does hold: a call that returns gives a JSON-safe fixed point
C13_WhenItReturns ==
  callPc = "returned" => JsonSafe(result) /\ to_jsonable(result) = result

\* a call that returned a mapping with merged keys from a nested input
C13_ReturnedCase ==
  /\ callPc = "returned"
  /\ arg.t = "dict" /\ Len(arg.items) = 2
  /\ result.t = "dict" /\ Len(result.items) = 1

\* the positions of calls
CallIdx == 1..Len(calls)

\* the invocation at i is the last one so far and ended the build
EndedBuild(i) == i = Len(calls) /\ pc = "fatal" /\ err = "convert"

\* the invocation at i is followed by the retry for the same file, or the
\* retry is the next step
Retried(i) ==
  \/ i = Len(calls) /\ pc = "retry"
  \/ /\ i < Len(calls)
     /\ calls[i+1].name = calls[i].name
     /\ ~calls[i+1].guids

\* what C14 says of every invocation, whichever failures lead to the retry:
\* at most two per file, the first with --use-element-guids, the second
\* without it and only after a failed first, none after a success, and a
\* failed second ends the build
AttemptsShape ==
  \A i \in CallIdx :
    /\ Cardinality({j \in CallIdx : calls[j].name = calls[i].name}) <= 2
    /\ (\A j \in CallIdx : j < i => calls[j].name # calls[i].name) => calls[i].guids
    /\ ~calls[i].guids =>
         /\ i > 1
         /\ calls[i-1].name = calls[i].name
         /\ calls[i-1].guids
         /\ calls[i-1].result # "ok"
    /\ calls[i].result = "ok" =>
         \A j \in CallIdx : j > i => calls[j].name # calls[i].name
    /\ (~calls[i].guids /\ calls[i].result # "ok") => EndedBuild(i)

\* C14 as stated: the shape above, and every kind of failure of the first
\* invocation leads to the retry.
C14_AsStated ==
  /\ AttemptsShape
  /\ \A i \in CallIdx :
       (calls[i].guids /\ calls[i].result # "ok") => Retried(i)

\* C14, amended: the shape above; a first invocation that ends with a
\* non-zero exit status (CalledProcessError) leads to the retry, and a first
\* invocation that fails any other way ends the build with no retry.
C14_RetryOnExitStatus ==
  /\ AttemptsShape
  /\ \A i \in CallIdx :
       /\ (calls[i].guids /\ calls[i].result = "CalledProcessError") => Retried(i)
       /\ (calls[i].guids /\ calls[i].result = "OSError") => EndedBuild(i)

\* C14 witness: the first file converted on the retry, the second file
\* converted at once, the third failed twice and ended the build
C14_Witness ==
  /\ Len(calls) = 5
  /\ calls[1].guids /\ calls[1].result = "CalledProcessError"
  /\ ~calls[2].guids /\ calls[2].result = "ok"
  /\ calls[3].guids /\ calls[3].result = "ok"
  /\ calls[4].guids /\ calls[4].result = "CalledProcessError"
  /\ ~calls[5].guids /\ calls[5].result = "OSError"
  /\ pc = "fatal"

\* the input stems in the order the loop of line 211 takes them
Order == SortedPaths(DOMAIN inputs)

ModelNames == [i \in 1..Len(models) |-> models[i].name]

\* this run wrote the file at <<dir, fname>>
WrittenNow(dir, fname) ==
  /\ <<dir, fname>> \in DOMAIN site.files
  /\ site.files[<<dir, fname>>].run = run

\* this run wrote the file at <<dir, fname>> for the input called name
WrittenFor(name, fname) ==
  /\ WrittenNow(slugify(name), fname)
  /\ site.files[<<slugify(name), fname>>].src = name

\* the input called name was converted: its last invocation succeeded
Converted(name) ==
  \E i \in CallIdx :
    /\ calls[i].name = name /\ calls[i].result = "ok"
    /\ \A j \in CallIdx : j > i => calls[j].name # name

\* the inputs this run has touched: invoked IfcConvert for, or written a
\* file for
Touched ==
  {calls[i].name : i \in CallIdx}
    \cup {site.files[p].src : p \in {q \in DOMAIN site.files :
                                       site.files[q].run = run /\ q[1] # Root}}

\* C15: the steps are strictly ordered.  A model's conversion (retry
\* included) has succeeded before its extraction begins; its metadata.json
\* is written before its ModelEntry is recorded; a model is fully processed
\* before the next one is touched; models.json is written only after every
\* input was processed.
C15_StepOrder ==
  /\ pc \in {"convert", "retry"} =>
       ~WrittenFor(cur, "model.glb") /\ ~WrittenFor(cur, "metadata.json")
  /\ pc \in {"extract", "viewer"} =>
       Converted(cur) /\ WrittenFor(cur, "model.glb")
  /\ pc = "extract" => ~WrittenFor(cur, "metadata.json")
  /\ pc = "viewer" =>
       /\ WrittenFor(cur, "metadata.json")
       /\ \A i \in 1..Len(models) : models[i].name # cur
  /\ \A i \in 1..Len(models) :
       /\ Converted(models[i].name)
       /\ WrittenNow(models[i].slug, "model.glb")
       /\ WrittenNow(models[i].slug, "metadata.json")
       /\ WrittenNow(models[i].slug, "index.html")
  /\ PastClearing =>
       LET order == Order
       IN /\ ModelNames = SubSeq(order, 1, Len(models))
          /\ Touched \subseteq
               {order[i] : i \in 1..Len(models)}
                 \cup (IF pc = "mkdir" \/ Len(models) = Len(order)
                       THEN {} ELSE {order[Len(models) + 1]})
       /\ \A i, j \in CallIdx : i < j =>
            \/ calls[i].name = calls[j].name
            \/ StrLess(FileName(calls[i].name), FileName(calls[j].name))
  /\ WrittenNow(Root, "models.json") =>
       /\ Len(models) = Cardinality(DOMAIN inputs)
       /\ todo = <<>>
       /\ pc \in {"root", "done"}

\* C15 witness: the third model is about to be extracted after a retried
\* conversion, the first two being recorded, and no models.json yet
C15_Witness ==
  /\ pc = "extract"
  /\ Len(models) = 2
  /\ Len(calls) >= 4
  /\ ~calls[Len(calls)].guids
  /\ calls[Len(calls) - 1].name = cur
  /\ ~WrittenNow(Root, "models.json")

\* C16: a run writes models.json at most once; when it is written it holds
\* exactly one entry per input file, each for a model that was converted and
\* whose metadata.json and index.html this run wrote under its slug; a run in
\* which a model failed or was not finished has no models.json.
C16_ManifestOnceAndComplete ==
  /\ writes <= 1
  /\ WrittenNow(Root, "models.json") <=> writes = 1
  /\ writes = 1 =>
       /\ Len(WrittenManifest) = Cardinality(DOMAIN inputs)
       /\ \A n \in DOMAIN inputs :
            Cardinality({i \in 1..Len(WrittenManifest) : WrittenManifest[i].name = n}) = 1
       /\ \A i \in 1..Len(WrittenManifest) :
            LET e == WrittenManifest[i]
            IN /\ e.name \in DOMAIN inputs
               /\ e.path = slugify(e.name)
               /\ Converted(e.name)
               /\ WrittenNow(e.path, "model.glb")
               /\ WrittenNow(e.path, "metadata.json")
               /\ WrittenNow(e.path, "index.html")
       /\ \A i \in CallIdx : calls[i].result # "ok" => Retried(i)
  /\ pc = "fatal" => writes = 0

\* C16 witness: a finished build of two files, one of them converted on the
\* retry, with its models.json written once
C16_Witness ==
  /\ pc = "done"
  /\ writes = 1
  /\ Len(WrittenManifest) = 2
  /\ Len(calls) = 3
  /\ calls[1].result = "CalledProcessError"

\* a model failed fatally: its conversion, or the opening of its file
ModelFailed == err \in {"convert", "extract"}

\* C17: when a model fails fatally (both conversions fail, or the first
\* cannot be started, or opening the file raises), the build stops at that
\* model: no later input is converted or extracted, neither models.json nor
\* the root index.html exists, nothing of an earlier run is in the output
\* root, and the directories of the models processed before are kept.
C17_AbortAtFailedModel ==
  ModelFailed =>
    /\ pc = "fatal"
    /\ LET order == Order
       IN /\ Len(models) < Len(order)
          /\ cur = order[Len(models) + 1]
          /\ ModelNames = SubSeq(order, 1, Len(models))
          /\ Touched \subseteq {order[i] : i \in 1..(Len(models) + 1)}
          /\ todo = SubSeq(order, Len(models) + 1, Len(order))
          /\ site.dirs = {slugify(order[i]) : i \in 1..(Len(models) + 1)}
    /\ err = "convert" =>
         /\ calls[Len(calls)].name = cur /\ calls[Len(calls)].result # "ok"
         /\ ~WrittenFor(cur, "model.glb")
    /\ err = "extract" =>
         /\ Converted(cur)
         /\ ifcopenshell /\ ~inputs[cur].openOk
    /\ ~WrittenFor(cur, "metadata.json") /\ ~WrittenFor(cur, "index.html")
    /\ <<Root, "models.json">> \notin DOMAIN site.files
    /\ <<Root, "index.html">> \notin DOMAIN site.files
    /\ writes = 0
    /\ site.exists
    /\ \A p \in DOMAIN site.files : site.files[p].run = run
    /\ \A i \in 1..Len(models) :
         /\ WrittenNow(models[i].slug, "model.glb")
         /\ WrittenNow(models[i].slug, "metadata.json")
         /\ WrittenNow(models[i].slug, "index.html")

\* C17 witness: the second of three files cannot be opened, after a first
\* one was processed, in an output root that held an earlier build
C17_Witness ==
  /\ pc = "fatal" /\ err = "extract"
  /\ Len(Order) = 3 /\ Len(models) = 1
  /\ site0 = StaleSite
  /\ Len(todo) = 2

\* C17 witness, conversion: the first file fails in both modes
C17_WitnessConvert ==
  /\ pc = "fatal" /\ err = "convert"
  /\ Len(Order) = 2 /\ Len(calls) = 2

\* the output root is as the run found it, and nothing was invoked
OutputUntouched ==
  /\ site = site0
  /\ writes = 0
  /\ calls = <<>>
  /\ models = <<>>

\* C18 as stated: when ifc_dir does not exist the build ends normally and
\* leaves the output root alone, whatever the templates and the binary.
C18_AsStated ==
  ~ifcDirExists =>
    /\ pc \in {"main", "find", "ifcdir", "noop"}
    /\ OutputUntouched

\* C18, amended: when ifc_dir does not exist the output root is left alone;
\* the build ends normally if both templates and a binary are found, and
\* ends with the error of the missing template or binary otherwise.
C18_NoInputDirNoOp ==
  ~ifcDirExists =>
    /\ pc \in {"main", "find", "ifcdir", "noop", "fatal"}
    /\ OutputUntouched
    /\ pc = "noop" => ~PrerequisiteMissing /\ err = "none"
    /\ pc = "fatal" => PrerequisiteMissing /\ err \in {"templates", "find_ifcconvert"}
    /\ ~PrerequisiteMissing => pc # "fatal"

\* C18 witness: the build ended as a no-op and an earlier build's output
\* root is still there
C18_Witness ==
  /\ ~ifcDirExists
  /\ pc = "noop"
  /\ site0 = StaleSite
  /\ site = StaleSite

\* the positions where the loop over the relationships stops: a building
\* storey, or a relationship that cannot be read
StoreyStops ==
  {i \in 1..Len(arg.rels.list) :
     \/ arg.rels.list[i].bad
     \/ arg.rels.list[i].hasStruct /\ arg.rels.list[i].storey}

\* C19: get_storey_name never raises.  It returns the Name, or else the
\* LongName, of the first relating structure that is a building storey, and
\* None when there is no relationship, when none is a storey, or when the
\* relationships cannot be read; a later storey is never used in place of
\* the first one, even when the first has neither name.
C19_FirstStoreyName ==
  callPc # "call" =>
    /\ callPc = "returned"
    /\ IF ~arg.rels.readable \/ StoreyStops = {}
       THEN result = None
       ELSE LET f == CHOOSE i \in StoreyStops : \A j \in StoreyStops : i <= j
                s == arg.rels.list[f]
            IN IF s.bad THEN result = None
               ELSE IF s.Name \notin {None, Str("")} THEN result = s.Name
               ELSE result = s.LongName

\* C19 witness: a building, then a storey with neither name, then a storey
\* called L1: the call returned None
C19_Witness ==
  /\ callPc = "returned"
  /\ Len(arg.rels.list) = 3
  /\ arg.rels.list[1] = Rel(TRUE, FALSE, Str("Bldg"), None)
  /\ arg.rels.list[2] = Rel(TRUE, TRUE, None, None)
  /\ arg.rels.list[3] = Rel(TRUE, TRUE, Str("L1"), Str("Level 1"))
  /\ result = None

====
